---- MODULE Spec2Model ----
(***************************************************************************)
(* Model of src/src/main.rs: an unbalanced binary search tree whose nodes  *)
(* are boxed (heap allocated), own their two children and carry a raw      *)
(* pointer to their parent.  The heap is modelled explicitly: a node is a  *)
(* record stored at an address, child links and parent pointers are        *)
(* addresses, and the empty Option is NULL.                                *)
(***************************************************************************)
EXTENDS Integers, FiniteSets, Sequences, TLC

VARIABLES
    heap,      \* address -> Node, the boxes currently allocated
    root,      \* Tree.root: address of the root box, or NULL
    detached_node, \* the box the caller got from its last detach and still owns, or NULL
    pc,        \* 0: an arbitrary caller; 1..13: position inside main()
    last,      \* the last call made on the tree and what it returned; had: a
               \* node of the tree stored the key when the call was made;
               \* afterDetach: an insert of the key the call before it detached
    live,      \* history: key -> value of the successful inserts not yet detached
    inserted,  \* history: keys passed to insert while only insert was called
    insertOnly \* history: no detach has been called so far

vars == <<heap, root, detached_node, pc, last, live, inserted, insertOnly>>

\* ---------------------------------------------------------------- bounds
MaxKey == 3     \* the arbitrary caller uses keys 1..MaxKey
MaxVal == 2     \* the arbitrary caller uses values 1..MaxVal
MaxNodes == 3   \* the arbitrary caller keeps at most MaxNodes boxes allocated

Keys == 1..MaxKey
Values == 1..MaxVal

\* ------------------------------------------------------------ data model
\* Option::None of a child link, of the parent pointer and of Tree.root
NULL == 0

\* the keys main() inserts, each with itself as the value
key == <<5, 3, 65, 123, 6, 11, 3, 1, 5, 42>>

MainKeys == {key[i] : i \in 1..Len(key)}

\* Node::new_root
new_root(k, v) ==
    [key |-> k, value |-> v, left |-> NULL, right |-> NULL, parent |-> NULL]

\* bug: the leaf stores the key in place of the value
new_leaf_value_is_key(k, v, p) ==
    [key |-> k, value |-> k, left |-> NULL, right |-> NULL, parent |-> p]

\* bug: the leaf is built like a root, without the parent pointer
new_leaf_no_parent(k, v, p) ==
    [key |-> k, value |-> v, left |-> NULL, right |-> NULL, parent |-> NULL]

\* Node::new_leaf
new_leaf(k, v, p) ==
    [key |-> k, value |-> v, left |-> NULL, right |-> NULL, parent |-> p]

\* Box::new(node): the allocator hands out an address that is not in use.
\* Nothing in the program reads an address as a number or compares two of
\* them, so which unused address it is cannot be observed; the model takes the
\* least one (first fit), which reuses the address of a dropped box at once.
BoxNew(h, n) ==
    CHOOSE a \in 1..(Cardinality(DOMAIN h) + 1) :
        a \notin DOMAIN h /\ \A b \in 1..(a - 1) : b \in DOMAIN h

\* The boxes owned through the box at address a (a itself and everything
\* reachable through left and right); empty for NULL.
RECURSIVE Owned(_, _)
Owned(h, a) ==
    IF a = NULL THEN {}
    ELSE {a} \cup Owned(h, h[a].left) \cup Owned(h, h[a].right)

\* Dropping a Box<Node> drops the node and, through its fields, both children.
DropBox(h, a) == [b \in DOMAIN h \ Owned(h, a) |-> h[b]]

\* ---------------------------------------------------------------- insert
\* bug: an equal key replaces the stored value (an upsert)
insert_equal_overwrite(h, cur, k, v) ==
    [heap |-> [h EXCEPT ![cur].value = v], ret |-> FALSE]

\* bug: an equal key is reported as inserted
insert_equal_true(h, cur, k, v) == [heap |-> h, ret |-> TRUE]

\* the arm `_ if key == current_node.key => false`
insert_equal(h, cur, k, v) == [heap |-> h, ret |-> FALSE]

\* the arm `(None, _) if key < current_node.key`
insert_left(h, cur, k, v) ==
    LET new_node == new_leaf(k, v, cur)
        a == BoxNew(h, new_node)
    IN  [heap |-> [h EXCEPT ![cur].left = a] @@ (a :> new_node), ret |-> TRUE]

\* bug: the right arm stores the new leaf in the left slot
insert_right_into_left(h, cur, k, v) ==
    LET new_node == new_leaf(k, v, cur)
        a == BoxNew(h, new_node)
    IN  [heap |-> [h EXCEPT ![cur].left = a] @@ (a :> new_node), ret |-> TRUE]

\* the arm `(_, None)`
insert_right(h, cur, k, v) ==
    LET new_node == new_leaf(k, v, cur)
        a == BoxNew(h, new_node)
    IN  [heap |-> [h EXCEPT ![cur].right = a] @@ (a :> new_node), ret |-> TRUE]

\* Tree::insert_at, the match arms in source order
RECURSIVE insert_at(_, _, _, _)
insert_at(h, cur, k, v) ==
    IF k = h[cur].key THEN insert_equal(h, cur, k, v)
    ELSE IF h[cur].left # NULL /\ k < h[cur].key
        THEN insert_at(h, h[cur].left, k, v)
    ELSE IF h[cur].left = NULL /\ k < h[cur].key
        THEN insert_left(h, cur, k, v)
    ELSE IF h[cur].right # NULL
        THEN insert_at(h, h[cur].right, k, v)
    ELSE insert_right(h, cur, k, v)

\* bug: the insert that creates the root reports false
insert_root_false(h, r, k, v) ==
    IF r # NULL
    THEN LET res == insert_at(h, r, k, v)
         IN  [heap |-> res.heap, root |-> r, ret |-> res.ret]
    ELSE LET a == BoxNew(h, new_root(k, v))
         IN  [heap |-> h @@ (a :> new_root(k, v)), root |-> a, ret |-> FALSE]

\* Tree::insert
insert(h, r, k, v) ==
    IF r # NULL
    THEN LET res == insert_at(h, r, k, v)
         IN  [heap |-> res.heap, root |-> r, ret |-> res.ret]
    ELSE LET a == BoxNew(h, new_root(k, v))
         IN  [heap |-> h @@ (a :> new_root(k, v)), root |-> a, ret |-> TRUE]

\* ------------------------------------------------------------------ find
\* Tree::find_at, the match arms in source order
RECURSIVE find_at(_, _, _)
find_at(h, cur, k) ==
    IF h[cur].key = k THEN cur
    ELSE IF h[cur].left # NULL /\ h[cur].key >= k
        THEN find_at(h, h[cur].left, k)
    ELSE IF h[cur].left = NULL /\ h[cur].key >= k
        THEN NULL
    ELSE IF h[cur].right # NULL
        THEN find_at(h, h[cur].right, k)
    ELSE NULL

\* Tree::find
find(h, r, k) == IF r = NULL THEN NULL ELSE find_at(h, r, k)

\* ---------------------------------------------------------------- detach
\* bug: the left arm takes the right child
detach_left_takes_right(h, cur) ==
    [heap |-> [h EXCEPT ![cur].right = NULL], ret |-> h[cur].right]

\* bug: the left arm clears the parent pointer of the node it hands back
detach_left_unparent(h, cur) ==
    [heap |-> [h EXCEPT ![cur].left = NULL, ![h[cur].left].parent = NULL],
     ret |-> h[cur].left]

\* the arm `(Some(left), _) if left.key == key => current_node.left.take()`
detach_left(h, cur) ==
    [heap |-> [h EXCEPT ![cur].left = NULL], ret |-> h[cur].left]

\* bug: the right arm takes the left child
detach_right_takes_left(h, cur) ==
    [heap |-> [h EXCEPT ![cur].left = NULL], ret |-> h[cur].left]

\* the arm `(_, Some(right)) if right.key == key => current_node.right.take()`
detach_right(h, cur) ==
    [heap |-> [h EXCEPT ![cur].right = NULL], ret |-> h[cur].right]

\* Tree::detach_at, the match arms in source order
RECURSIVE detach_at(_, _, _)
detach_at(h, cur, k) ==
    IF h[cur].left # NULL /\ h[h[cur].left].key = k
        THEN detach_left(h, cur)
    ELSE IF h[cur].right # NULL /\ h[h[cur].right].key = k
        THEN detach_right(h, cur)
    ELSE IF h[cur].left # NULL /\ h[cur].key >= k
        THEN detach_at(h, h[cur].left, k)
    ELSE IF h[cur].left = NULL /\ h[cur].key >= k
        THEN [heap |-> h, ret |-> NULL]
    ELSE IF h[cur].right # NULL
        THEN detach_at(h, h[cur].right, k)
    ELSE [heap |-> h, ret |-> NULL]

\* the arm `Some(root_node) if root_node.key == key => self.root.take()`
detach_root(h, r) == [heap |-> h, root |-> NULL, ret |-> r]

\* bug: the root arm has lost its guard `if root_node.key == key`
detach_always_root(h, r, k) ==
    IF r = NULL THEN [heap |-> h, root |-> r, ret |-> NULL]
    ELSE detach_root(h, r)

\* Tree::detach
detach(h, r, k) ==
    IF r = NULL THEN [heap |-> h, root |-> r, ret |-> NULL]
    ELSE IF h[r].key = k THEN detach_root(h, r)
    ELSE LET res == detach_at(h, r, k)
         IN  [heap |-> res.heap, root |-> r, ret |-> res.ret]

\* --------------------------------------------------------------- history
\* the keys stored in the boxes owned through a
KeysOf(h, a) == {h[b].key : b \in Owned(h, a)}

\* every key and value a caller of the model passes
AllKeys == Keys \cup MainKeys
AllValues == Values \cup MainKeys

\* ------------------------------------------------------------------ calls
\* Tree::new(): the empty tree, nothing allocated
Init ==
    /\ heap = << >>
    /\ root = NULL
    /\ detached_node = NULL
    /\ pc \in {0, 1}
    /\ last = [op |-> "new", key |-> 0, value |-> 0, ok |-> TRUE, node |-> NULL,
               had |-> FALSE, afterDetach |-> FALSE]
    /\ live = << >>
    /\ inserted = {}
    /\ insertOnly = TRUE

\* tree.insert(k, v)
CallInsert(k, v) ==
    LET res == insert(heap, root, k, v)
    IN  /\ heap' = res.heap
        /\ root' = res.root
        /\ last' = [op |-> "insert", key |-> k, value |-> v, ok |-> res.ret,
                    node |-> NULL, had |-> k \in KeysOf(heap, root),
                    afterDetach |-> last.op = "detach" /\ last.ok /\ last.key = k]
        /\ live' = IF res.ret
                   THEN [x \in DOMAIN live \cup {k} |->
                            IF x = k THEN v ELSE live[x]]
                   ELSE live
        /\ inserted' = IF insertOnly THEN inserted \cup {k} ELSE inserted
        /\ UNCHANGED <<detached_node, insertOnly>>

\* tree.find(k): the tree is only read
CallFind(k) ==
    LET n == find(heap, root, k)
    IN  /\ last' = [op |-> "find", key |-> k, value |-> 0, ok |-> n # NULL,
                    node |-> n, had |-> k \in KeysOf(heap, root),
                    afterDetach |-> FALSE]
        /\ UNCHANGED <<heap, root, detached_node, live, inserted, insertOnly>>

\* detached_node = tree.detach(k): the caller becomes the owner of the returned
\* box, and the box it owned before, if any, is dropped by the assignment
CallDetach(k) ==
    LET res == detach(heap, root, k)
    IN  /\ heap' = DropBox(res.heap, detached_node)
        /\ root' = res.root
        /\ detached_node' = res.ret
        /\ last' = [op |-> "detach", key |-> k, value |-> 0,
                    ok |-> res.ret # NULL, node |-> res.ret,
                    had |-> k \in KeysOf(heap, root), afterDetach |-> FALSE]
        /\ live' = [x \in DOMAIN live \ KeysOf(heap, res.ret) |-> live[x]]
        /\ inserted' = {}
        /\ insertOnly' = FALSE

\* drop(detached_node): the caller drops the detached subtree it owns
DropDetached ==
    /\ detached_node # NULL
    /\ heap' = DropBox(heap, detached_node)
    /\ detached_node' = NULL
    /\ UNCHANGED <<root, last, live, inserted, insertOnly>>

\* main(): `for i in key { tree.insert(i, i); }`
MainInsert ==
    /\ pc \in 1..Len(key)
    /\ CallInsert(key[pc], key[pc])
    /\ pc' = pc + 1

\* main(): `tree.find(6)`
MainFind ==
    /\ pc = Len(key) + 1
    /\ CallFind(6)
    /\ pc' = pc + 1

\* main(): `let detached_node = tree.detach(6);`
MainDetach ==
    /\ pc = Len(key) + 2
    /\ CallDetach(6)
    /\ pc' = pc + 1

\* An arbitrary caller: any call, in any order.  It owns at most one detached
\* subtree at a time and drops it before it updates the tree again (the comment
\* on detach: the parent pointer is "valid until next update to this tree").
AnyInsert ==
    /\ pc = 0
    /\ detached_node = NULL
    /\ \E k \in Keys, v \in Values : CallInsert(k, v)
    /\ Cardinality(DOMAIN heap') <= MaxNodes
    /\ UNCHANGED pc

AnyFind ==
    /\ pc = 0
    /\ \E k \in Keys : CallFind(k)
    /\ UNCHANGED pc

AnyDetach ==
    /\ pc = 0
    /\ detached_node = NULL
    /\ \E k \in Keys : CallDetach(k)
    /\ UNCHANGED pc

AnyDrop ==
    /\ pc = 0
    /\ DropDetached
    /\ UNCHANGED pc

Next ==
    \/ AnyInsert
    \/ AnyFind
    \/ AnyDetach
    \/ AnyDrop
    \/ MainInsert
    \/ MainFind
    \/ MainDetach

Spec == Init /\ [][Next]_vars

\* ------------------------------------------------------- the tree, as it is
\* The claims read the tree through its links, not through find: the boxes
\* reachable from the root, the keys they store, and the box storing a key.
InTree == Owned(heap, root)
TreeKeys == KeysOf(heap, root)
BoxesOf(h, r, k) == {a \in Owned(h, r) : h[a].key = k}

\* ------------------------------------------------------------------ C1
\* C1: every key whose insert returned true and that no later detach removed
\* (itself or under an ancestor) is found by find, in a node that stores that
\* key and the value given at the successful insert.
C1_FindReturnsInserted ==
    \A k \in DOMAIN live :
        LET n == find(heap, root, k)
        IN  /\ n # NULL
            /\ heap[n].key = k
            /\ heap[n].value = live[k]

\* a find of a surviving key, after a detach took other keys away and while a
\* node of the tree stores a value different from its key
C1_Witness ==
    /\ ~insertOnly
    /\ last.op = "find" /\ last.ok
    /\ last.key \in DOMAIN live
    /\ heap[last.node].value # last.key
    /\ Cardinality(DOMAIN live) >= 2

\* ------------------------------------------------------------------ C3
\* C3: in every reachable tree, each key in a node's left subtree is strictly
\* less than the node's key, each key in its right subtree is greater than or
\* equal to it, and no two nodes of the tree store the same key.
C3_SearchTreeOrder ==
    /\ \A n \in InTree :
        /\ \A m \in Owned(heap, heap[n].left) : heap[m].key < heap[n].key
        /\ \A m \in Owned(heap, heap[n].right) : heap[m].key >= heap[n].key
    /\ \A n, m \in InTree : heap[n].key = heap[m].key => n = m

\* a tree, after a detach, with a node that has both children
C3_Witness ==
    /\ ~insertOnly
    /\ \E n \in InTree : heap[n].left # NULL /\ heap[n].right # NULL

\* ----------------------------------------------------------------- C10
\* C10: the tree holds no live key iff its root is absent; a present root has
\* no parent reference; and the parent reference of every other node of the
\* tree is the one node whose left or right slot holds it.
C10_ParentLinks ==
    /\ (DOMAIN live = {}) <=> (root = NULL)
    /\ root # NULL => heap[root].parent = NULL
    /\ \A n \in InTree \ {root} :
        /\ heap[n].parent \in InTree
        /\ \A b \in InTree :
            (heap[b].left = n \/ heap[b].right = n) <=> b = heap[n].parent

\* a tree, after a detach and a later insert, with a node two links below the root
C10_Witness ==
    /\ ~insertOnly
    /\ last.op = "insert" /\ last.ok
    /\ \E n \in InTree :
        /\ heap[n].parent # NULL
        /\ heap[heap[n].parent].parent = root

\* ------------------------------------------------------------------ C2
\* C2: insert(k, v) on a tree that stores k returns false and changes nothing:
\* no box is added and every node keeps its key, value, children and parent.
C2_DuplicateRejected ==
    [][LET k == last'.key
           v == last'.value
       IN  (last'.op = "insert" /\ CallInsert(k, v) /\ k \in TreeKeys) =>
               (~last'.ok /\ heap' = heap /\ root' = root)]_vars

\* a rejected insert whose value differs from the one the tree stores
C2_Witness ==
    /\ last.op = "insert" /\ last.had /\ ~last.ok
    /\ \E a \in BoxesOf(heap, root, last.key) : heap[a].value # last.value

\* ------------------------------------------------------------------ C4
\* C4: after detach(k) of a present key, find returns absent for k and for
\* every key of the subtree under k's node, and still returns, for every other
\* key of the tree, a node with the value that key had before.
C4_DetachRemovesSubtree ==
    [][LET k == last'.key
       IN  (last'.op = "detach" /\ CallDetach(k) /\ k \in TreeKeys) =>
            \A a \in BoxesOf(heap, root, k) :
                /\ \A x \in KeysOf(heap, a) : find(heap', root', x) = NULL
                /\ \A x \in TreeKeys \ KeysOf(heap, a) :
                    LET n == find(heap', root', x)
                    IN  /\ n # NULL
                        /\ heap'[n].key = x
                        /\ \A b \in BoxesOf(heap, root, x) :
                               heap'[n].value = heap[b].value]_vars

\* a detach that took a node with a descendant and left a tree behind
C4_Witness ==
    /\ last.op = "detach" /\ last.had /\ last.ok
    /\ Cardinality(Owned(heap, detached_node)) >= 2
    /\ root # NULL

\* ------------------------------------------------------------------ C7
\* C7: detach(k) of a present key followed at once by insert(k, v') returns
\* true, and find(k) then returns a node with value v'.
C7_DetachThenInsert ==
    [][LET k == last'.key
           v == last'.value
       IN  (/\ last.op = "detach" /\ last.had /\ last.key = k
            /\ last'.op = "insert" /\ CallInsert(k, v)) =>
            /\ last'.ok
            /\ LET n == find(heap', root', k)
               IN  n # NULL /\ heap'[n].key = k /\ heap'[n].value = v]_vars

\* the insert of a key right after its detach, into a tree that was not left
\* empty, with a value other than the key
C7_Witness ==
    /\ last.op = "insert" /\ last.afterDetach /\ last.ok
    /\ last.value # last.key
    /\ Cardinality(InTree) >= 2

\* ------------------------------------------------------------------ C8
\* C8: detach(k) of a present key hands back k's node and its descendants as
\* they stood (keys, values, child links, and the node's parent reference);
\* the tree that remains differs only in the one slot that held the node (the
\* root slot, leaving the tree empty, or a child slot), which is now empty.
C8_DetachFrame ==
    [][LET k == last'.key
       IN  (last'.op = "detach" /\ CallDetach(k) /\ k \in TreeKeys) =>
            \A a \in BoxesOf(heap, root, k) :
                /\ detached_node' = a
                /\ Owned(heap', a) = Owned(heap, a)
                /\ \A b \in Owned(heap, a) : heap'[b] = heap[b]
                /\ Owned(heap', root') = InTree \ Owned(heap, a)
                /\ root' = IF a = root THEN NULL ELSE root
                /\ \A b \in InTree \ Owned(heap, a) :
                    heap'[b] = IF heap[b].left = a
                                   THEN [heap[b] EXCEPT !.left = NULL]
                               ELSE IF heap[b].right = a
                                   THEN [heap[b] EXCEPT !.right = NULL]
                               ELSE heap[b]]_vars

\* a detach that took a node below the root together with a child of its own
C8_Witness ==
    /\ last.op = "detach" /\ last.had /\ last.ok
    /\ detached_node # NULL
    /\ heap[detached_node].parent # NULL
    /\ heap[detached_node].left # NULL \/ heap[detached_node].right # NULL

\* ------------------------------------------------------------------ C9
\* C9: for every reachable tree, the empty one included, and every key it does
\* not store, find returns absent, and detach returns absent and leaves the
\* root slot and every node of the tree as they were.
C9_AbsentKey ==
    /\ [](\A k \in AllKeys \ TreeKeys : find(heap, root, k) = NULL)
    /\ [][LET k == last'.key
           IN  (last'.op = "detach" /\ CallDetach(k) /\ k \notin TreeKeys) =>
                /\ ~last'.ok
                /\ detached_node' = NULL
                /\ root' = root
                /\ Owned(heap', root') = InTree
                /\ \A b \in InTree : heap'[b] = heap[b]]_vars

\* a detach of a key that a tree of at least two nodes does not store
C9_Witness ==
    /\ last.op = "detach" /\ ~last.had /\ ~last.ok
    /\ Cardinality(InTree) >= 2

\* ------------------------------------------------------------------ C6
\* C6: while only insert has been called, insert returns true exactly when its
\* key was not passed before and adds exactly one box then (none otherwise), so
\* the tree has one node per distinct key passed; in main() the ten inserts
\* leave 8 nodes, the second 3 and the second 5 are the rejected ones, and
\* find(6) returns a node with value 6.
C6_OneNodePerKey ==
    /\ [](insertOnly =>
            /\ Cardinality(InTree) = Cardinality(inserted)
            /\ TreeKeys = inserted)
    /\ [](/\ pc \in 2..(Len(key) + 1) => (last.ok <=> pc - 1 \notin {7, 9})
          /\ pc = Len(key) + 1 => Cardinality(InTree) = 8
          /\ pc = Len(key) + 2 =>
                /\ last.node # NULL
                /\ heap[last.node].key = 6
                /\ heap[last.node].value = 6)
    /\ [][LET k == last'.key
              v == last'.value
              grown == IF k \in inserted THEN 0 ELSE 1
          IN  (insertOnly /\ last'.op = "insert" /\ CallInsert(k, v)) =>
                /\ last'.ok <=> k \notin inserted
                /\ Cardinality(DOMAIN heap') = Cardinality(DOMAIN heap) + grown
                /\ Cardinality(Owned(heap', root')) = Cardinality(InTree) + grown]_vars

\* main() after its ten inserts and its find(6)
C6_Witness ==
    /\ pc = Len(key) + 2
    /\ last.op = "find" /\ last.key = 6 /\ last.ok
    /\ Cardinality(inserted) = 8

\* ------------------------------------------------------------------ C5
\* the node of main()'s tree that stores k (NULL when none does)
MainNode(k) ==
    IF BoxesOf(heap, root, k) = {} THEN NULL
    ELSE CHOOSE a \in BoxesOf(heap, root, k) : TRUE

\* C5 as claimed: in main()'s tree node 6 is a leaf under 5's right branch, and
\* after detach(6) find(6) returns absent while find(11) still returns a node
\* with value 11.
C5_AsClaimed ==
    /\ pc = Len(key) + 2 =>
        /\ heap[root].key = 5
        /\ MainNode(6) \in Owned(heap, heap[root].right)
        /\ heap[MainNode(6)].left = NULL
        /\ heap[MainNode(6)].right = NULL
    /\ pc = Len(key) + 3 =>
        /\ find(heap, root, 6) = NULL
        /\ find(heap, root, 11) # NULL
        /\ heap[find(heap, root, 11)].value = 11

\* C5 as amended: in main()'s tree node 6 is under 5's right branch (the left
\* child of 65) and is no leaf: its right child is 11, whose right child is 42.
\* detach(6) hands back 6 with 11 and 42, after which find returns absent for
\* 6, 11 and 42, and a node with the value inserted for 1, 3, 5, 65 and 123.
C5_MainScenario ==
    /\ pc = Len(key) + 2 =>
        /\ heap[root].key = 5
        /\ MainNode(6) \in Owned(heap, heap[root].right)
        /\ heap[MainNode(65)].left = MainNode(6)
        /\ heap[MainNode(6)].left = NULL
        /\ heap[MainNode(6)].right = MainNode(11)
        /\ heap[MainNode(11)].left = NULL
        /\ heap[MainNode(11)].right = MainNode(42)
        /\ KeysOf(heap, MainNode(6)) = {6, 11, 42}
    /\ pc = Len(key) + 3 =>
        /\ last.ok
        /\ KeysOf(heap, detached_node) = {6, 11, 42}
        /\ \A x \in {6, 11, 42} : find(heap, root, x) = NULL
        /\ \A x \in {1, 3, 5, 65, 123} :
            /\ find(heap, root, x) # NULL
            /\ heap[find(heap, root, x)].key = x
            /\ heap[find(heap, root, x)].value = x

\* main() after its detach(6)
C5_Witness ==
    /\ pc = Len(key) + 3
    /\ last.op = "detach" /\ last.key = 6
    /\ detached_node # NULL

====
